---- MODULE Spec2Model ----
(***************************************************************************)
(* State-machine model of langservehub/cli.py: the PyProject manifest      *)
(* document, the identifier resolver (_package_to_poetry and               *)
(* _package_to_pyproject) and the CLI commands add, remove, list and       *)
(* download.                                                               *)
(*                                                                         *)
(* Strings the code inspects character by character (package identifiers,  *)
(* mount paths, URLs, the access token) are sequences of atoms; a fixed    *)
(* piece of a template is one atom.  Strings the code only passes along    *)
(* (module and attribute names) are TLA+ strings.                          *)
(***************************************************************************)
EXTENDS Naturals, Sequences, FiniteSets

VARIABLES
    file,       \* the project's pyproject.toml on disk
    environ,    \* os.environ["GITHUB_TOKEN"], or NoneSeq when unset
    cmd,        \* the CLI command in progress (position, locals, effects)
    obj,        \* a PyProject object driven through its methods
    call,       \* the last method call made on obj, with its outcome
    resolver,   \* identifier-resolver calls made so far for one package
    dl          \* the download command: its tasks, the local disk, its output

vars == <<file, environ, cmd, obj, call, resolver, dl>>

(***************************************************************************)
(* Bounds                                                                  *)
(***************************************************************************)
MaxIdLen == 2       \* longest package identifier the resolver is given

(***************************************************************************)
(* Python values                                                           *)
(***************************************************************************)
None == "<None>"            \* None where a str is expected
NoneSeq == <<None>>         \* None where a character sequence is expected

Exc(type, mentions) == [type |-> type, mentions |-> mentions]
NoExc == Exc("<none>", {})
\* mentions: the manifest fields an exception's message names
KeyErr == Exc("KeyError", {})

Alphabet == {".", "/", "a"}
RECURSIVE StrOfLen(_)
StrOfLen(n) ==
    IF n = 0 THEN {<<>>}
    ELSE {<<c>> \o s : c \in Alphabet, s \in StrOfLen(n - 1)}
Identifiers == UNION {StrOfLen(n) : n \in 0..MaxIdLen}

\* str.startswith(prefix) for a single-character prefix
startswith(s, c) == Len(s) > 0 /\ Head(s) = c

(***************************************************************************)
(* dict, insertion ordered: a sequence of [k, v] items with distinct keys  *)
(***************************************************************************)
DictKeys(d) == {d[i].k : i \in 1..Len(d)}
DictHas(d, k) == k \in DictKeys(d)
DictIndex(d, k) == CHOOSE i \in 1..Len(d) : d[i].k = k
DictGet(d, k) == d[DictIndex(d, k)].v
\* d[k] = v: an existing key keeps its position, a new key goes last
DictSet(d, k, v) ==
    IF DictHas(d, k)
    THEN [i \in 1..Len(d) |-> IF d[i].k = k THEN [k |-> k, v |-> v] ELSE d[i]]
    ELSE Append(d, [k |-> k, v |-> v])
\* d.pop(k) for a key that is present
DictPop(d, k) ==
    LET j == DictIndex(d, k)
    IN  [i \in 1..(Len(d) - 1) |-> IF i < j THEN d[i] ELSE d[i + 1]]

\* a [module, attr] pair; kind tells a Python tuple from a Python list and
\* from an array in TOML text
Tuple(m, a) == [kind |-> "tuple", mod |-> m, attr |-> a]
List(m, a) == [kind |-> "list", mod |-> m, attr |-> a]
Array(m, a) == [kind |-> "array", mod |-> m, attr |-> a]

(***************************************************************************)
(* The manifest document (PyProject.data), the part of the nested dict     *)
(* the code reaches:                                                       *)
(*   tool       "tool" in data                                             *)
(*   langserve  "langserve" in data["tool"]                                *)
(*   haspaths   "paths" in data["tool"]["langserve"]                       *)
(*   paths      data["tool"]["langserve"]["paths"]                         *)
(*   export_module, export_attr   the two export keys, None when absent    *)
(*   ls_other   the other keys of tool.langserve (None when there are none)*)
(*   rest       everything outside tool.langserve, reduced to the set of  *)
(*              dependencies the installer has recorded                    *)
(***************************************************************************)
Data(tool, langserve, haspaths, paths, em, ea, lo, rest) ==
    [tool |-> tool, langserve |-> langserve, haspaths |-> haspaths,
     paths |-> paths, export_module |-> em, export_attr |-> ea,
     ls_other |-> lo, rest |-> rest]

EmptyData == Data(FALSE, FALSE, FALSE, <<>>, None, None, None, {})

\* PyProject.__init__
PyProject(data, path) == [live |-> TRUE, data |-> data, path |-> path]
NoObject == [live |-> FALSE, data |-> EmptyData, path |-> None]

Result(raised, ret, self) == [raised |-> raised, ret |-> ret, self |-> self]

\* tomli_w.dump: every mount entry, tuple or list, is written as an array
dump_toml(data) ==
    [data EXCEPT !.paths =
        [i \in 1..Len(data.paths) |->
            [k |-> data.paths[i].k,
             v |-> Array(data.paths[i].v.mod, data.paths[i].v.attr)]]]
\* tomllib.load: every array is read as a list
load_toml(content) ==
    [content EXCEPT !.paths =
        [i \in 1..Len(content.paths) |->
            [k |-> content.paths[i].k,
             v |-> List(content.paths[i].v.mod, content.paths[i].v.attr)]]]

PyprojectToml == "pyproject.toml"
\* fmt: "authored" while the bytes are the ones the project's author wrote,
\* "poetry" once the installer has rewritten the file, "tomli_w" once save()
\* has, "truncated" once a save() has emptied it and failed
File(data, fmt) == [data |-> data, fmt |-> fmt]

\* PyProject.load(path); io is whether open() succeeds
load(path, io) ==
    IF io # "ok" THEN Result(Exc("OSError", {}), None, NoObject)
    ELSE Result(NoExc, PyProject(load_toml(file.data), path), NoObject)

\* urllib.request.urlopen refuses a url that has no scheme
RawBase == "https://raw.githubusercontent.com/langchain-ai/langserve-hub/main/"
GitBase == "git+https://github.com/langchain-ai/langserve-hub.git#subdirectory="
HasScheme(url) == Len(url) > 0 /\ Head(url) = RawBase

\* what the network answers to a GET
Response(status, data) == [status |-> status, data |-> data]

\* PyProject.from_url(url); response is the server's answer.  Only HTTPError
\* is turned into the ValueError with the GITHUB_TOKEN hint; every other
\* failure propagates as it is.
from_url(url, response) ==
    IF ~HasScheme(url) THEN Result(Exc("ValueError", {}), None, NoObject)
    ELSE IF response.status = "http_error"
    THEN Result(Exc("ValueError", {"GITHUB_TOKEN"}), None, NoObject)
    ELSE IF response.status = "url_error"
    THEN Result(Exc("URLError", {}), None, NoObject)
    ELSE IF response.status = "bad_toml"
    THEN Result(Exc("TOMLDecodeError", {}), None, NoObject)
    ELSE Result(NoExc, PyProject(load_toml(response.data), None), NoObject)

\* the file after open(path, "wb") succeeded and nothing reached the disk
Truncated == File(EmptyData, "truncated")

\* save without the test of self.path
save_any_document(self, io) ==
    IF io = "fails" THEN Result(Exc("OSError", {}), file, self)
    ELSE IF io = "write_fails" THEN Result(Exc("OSError", {}), Truncated, self)
    ELSE Result(NoExc, File(dump_toml(self.data), "tomli_w"), self)

\* PyProject.save(); ret is the file as it is after the call.  io: open()
\* fails and the file is untouched; or open() has truncated the file and
\* the write of dump_toml fails (the few bytes of a manifest are buffered,
\* so none reaches the disk); or both succeed.
save(self, io) ==
    IF self.path = None THEN Result(Exc("ValueError", {}), file, self)
    ELSE IF io = "fails" THEN Result(Exc("OSError", {}), file, self)
    ELSE IF io = "write_fails" THEN Result(Exc("OSError", {}), Truncated, self)
    ELSE Result(NoExc, File(dump_toml(self.data), "tomli_w"), self)

\* PyProject._get_langserve_path_dict
_get_langserve_path_dict(self) ==
    IF ~self.data.tool THEN Result(KeyErr, None, self)
    ELSE Result(NoExc, self.data.paths, self)

\* _set_langserve_path_dict that starts from a fresh langserve = {}
_set_langserve_path_dict_fresh(self, path_dict) ==
    Result(NoExc, None,
           [self EXCEPT !.data.langserve = TRUE, !.data.haspaths = TRUE,
                        !.data.paths = path_dict,
                        !.data.export_module = None,
                        !.data.export_attr = None,
                        !.data.ls_other = None])

\* PyProject._set_langserve_path_dict
_set_langserve_path_dict(self, path_dict) ==
    Result(NoExc, None,
           [self EXCEPT !.data.langserve = TRUE, !.data.haspaths = TRUE,
                        !.data.paths = path_dict])

\* is_langserve that tests for the tool table, not for tool.langserve
is_langserve_tool_only(self) ==
    IF ~self.data.tool THEN Result(KeyErr, None, self)
    ELSE Result(NoExc, TRUE, self)

\* PyProject.is_langserve
is_langserve(self) ==
    IF ~self.data.tool THEN Result(KeyErr, None, self)
    ELSE Result(NoExc, self.data.langserve, self)

\* PyProject.add_langserve_path
add_langserve_path(self, path, module) ==
    LET paths == _get_langserve_path_dict(self)
    IN  IF paths.raised # NoExc THEN Result(paths.raised, None, self)
        ELSE _set_langserve_path_dict(self, DictSet(paths.ret, path, module))

\* remove_langserve_path with paths.pop(path, None)
remove_langserve_path_pop_default(self, path) ==
    LET paths == _get_langserve_path_dict(self)
    IN  IF paths.raised # NoExc THEN Result(paths.raised, None, self)
        ELSE IF ~DictHas(paths.ret, path)
        THEN _set_langserve_path_dict(self, paths.ret)
        ELSE _set_langserve_path_dict(self, DictPop(paths.ret, path))

\* PyProject.remove_langserve_path
remove_langserve_path(self, path) ==
    LET paths == _get_langserve_path_dict(self)
    IN  IF paths.raised # NoExc THEN Result(paths.raised, None, self)
        ELSE IF ~DictHas(paths.ret, path) THEN Result(KeyErr, None, self)
        ELSE _set_langserve_path_dict(self, DictPop(paths.ret, path))

\* PyProject.get_langserve_paths
get_langserve_paths(self) == _get_langserve_path_dict(self)

\* PyProject.get_langserve_export
get_langserve_export(self) ==
    IF ~self.data.tool THEN Result(KeyErr, None, self)
    ELSE IF self.data.export_module = None
    THEN Result(Exc("ValueError", {"export_module"}), None, self)
    ELSE IF self.data.export_attr = None
    THEN Result(Exc("ValueError", {"export_attr"}), None, self)
    ELSE Result(NoExc, Tuple(self.data.export_module, self.data.export_attr),
                self)

\* _load_pyproject
_load_pyproject(io) == load(PyprojectToml, io)

\* _package_to_poetry that appends the token as _package_to_pyproject does
_package_to_poetry_with_token(package) ==
    IF startswith(package, ".") \/ startswith(package, "/") THEN package
    ELSE LET tokenparam ==
                 IF environ = NoneSeq \/ environ = <<>> THEN <<>>
                 ELSE <<"?token=">> \o environ
         IN  <<GitBase>> \o package \o tokenparam

\* _package_to_poetry
_package_to_poetry(package) ==
    IF startswith(package, ".") \/ startswith(package, "/") THEN package
    ELSE <<GitBase>> \o package

\* _package_to_pyproject that tests GITHUB_TOKEN against None only, so that an
\* empty token is appended too
_package_to_pyproject_is_not_none(package) ==
    IF startswith(package, ".") \/ startswith(package, "/")
    THEN package \o <<"/", "pyproject.toml">>
    ELSE LET tokenparam ==
                 IF environ = NoneSeq THEN <<>>
                 ELSE <<"?token=">> \o environ
         IN  <<RawBase>> \o package \o <<"/", "pyproject.toml">> \o tokenparam

\* _package_to_pyproject
_package_to_pyproject(package) ==
    IF startswith(package, ".") \/ startswith(package, "/")
    THEN package \o <<"/", "pyproject.toml">>
    ELSE LET tokenparam ==
                 IF environ = NoneSeq \/ environ = <<>> THEN <<>>
                 ELSE <<"?token=">> \o environ
         IN  <<RawBase>> \o package \o <<"/", "pyproject.toml">> \o tokenparam

(***************************************************************************)
(* Inputs: the manifests a project or a hub package can have, the answers  *)
(* of the network, the values of GITHUB_TOKEN, the arguments of commands   *)
(***************************************************************************)
MountA == <<"/", "a">>
MountB == <<"/", "b">>
Bare == <<"b">>             \* a path argument without the leading slash

\* manifests of hub packages: without a tool table, without tool.langserve,
\* and with none, one or both of the export keys
RemoteManifests ==
    { EmptyData,
      Data(TRUE, FALSE, FALSE, <<>>, None, None, None, {}),
      Data(TRUE, TRUE, FALSE, <<>>, None, None, None, {}),
      Data(TRUE, TRUE, FALSE, <<>>, "m", None, None, {}),
      Data(TRUE, TRUE, FALSE, <<>>, None, "x", "o", {}),
      Data(TRUE, TRUE, TRUE, <<>>, "m", "x", None, {}) }

\* manifests of the consuming project, as their author wrote them: every
\* mount path starts with "/"
LocalManifests ==
    { EmptyData,
      Data(TRUE, FALSE, FALSE, <<>>, None, None, None, {}),
      Data(TRUE, TRUE, FALSE, <<>>, None, None, "o", {}),
      Data(TRUE, TRUE, TRUE, <<[k |-> MountB, v |-> Array("n", "y")]>>,
           "n", "y", "o", {}) }

Responses ==
    {Response("ok", d) : d \in RemoteManifests}
        \cup {Response(st, EmptyData) : st \in {"http_error", "url_error", "bad_toml"}}

Tokens == {NoneSeq, <<>>, <<"t">>}
IOs == {"ok", "fails"}
SaveIOs == {"ok", "fails", "write_fails"}
ExitCodes == {0, 1}

Packages == {<<"a">>, <<".", "a">>, <<"/", "a">>}
PathArgs == {NoneSeq, <<>>, MountB, Bare}
RemoveArgs == {MountA, MountB, Bare}

(***************************************************************************)
(* The remote tree the download command mirrors: {a.txt, sub/{b.txt,       *)
(* c.txt}} under the package's directory                                   *)
(***************************************************************************)
Root == "."
Dirs == {Root, "sub"}
Files == {"a.txt", "sub/b.txt", "sub/c.txt"}
Nodes == Dirs \cup Files
Children(d) ==
    IF d = Root THEN {"a.txt", "sub"}
    ELSE IF d = "sub" THEN {"sub/b.txt", "sub/c.txt"}
    ELSE {}
Contents == {"x", "y"}

\* status: per node, "idle" (no task yet), "running" (its listing or fetch
\* is in flight), "waiting" (a directory whose children were started),
\* "done" or "failed"
\* disk: per node, what is at localpath/<node>: None, "dir" or the content
Download(phase, remote, status, disk, printed) ==
    [phase |-> phase, remote |-> remote, status |-> status, disk |-> disk,
     printed |-> printed]
NoDownload ==
    Download("idle", [f \in Files |-> "x"], [n \in Nodes |-> "idle"],
             [n \in Nodes |-> None], FALSE)

(***************************************************************************)
(* The CLI: one command at a time, each a sequence of steps                *)
(***************************************************************************)
Call(op, path, module, r) ==
    [op |-> op, path |-> path, module |-> module, pre |-> obj, file0 |-> file,
     raised |-> r.raised, ret |-> r.ret]
NoCall ==
    [op |-> "none", path |-> NoneSeq, module |-> None, pre |-> NoObject,
     file0 |-> File(EmptyData, "authored"), raised |-> NoExc, ret |-> None]
Idle ==
    [name |-> "idle", pc |-> "done", package |-> NoneSeq, path |-> NoneSeq,
     package_pyproject |-> NoObject, pyproject |-> NoObject,
     raised |-> NoExc, installs |-> <<>>, file0 |-> file, writes |-> 0,
     echo |-> <<>>]

Fail(e) == [cmd EXCEPT !.pc = "failed", !.raised = e]
Ended == cmd.pc \in {"done", "failed"}
ApiIdle == UNCHANGED <<obj, call, resolver, dl>>

\* add(package, path) is called
StartAdd ==
    /\ Ended
    /\ \E package \in Packages, path \in PathArgs :
          cmd' = [Idle EXCEPT !.name = "add", !.pc = "fetch",
                              !.package = package, !.path = path]
    /\ UNCHANGED <<file, environ>> /\ ApiIdle

\* add, "get pyproject"
AddFetch ==
    /\ cmd.name = "add" /\ cmd.pc = "fetch"
    /\ \E response \in Responses :
          LET package_pyproject_url == _package_to_pyproject(cmd.package)
              r == from_url(package_pyproject_url, response)
          IN  cmd' = IF r.raised # NoExc THEN Fail(r.raised)
                     ELSE [cmd EXCEPT !.pc = "check", !.package_pyproject = r.ret]
    /\ UNCHANGED <<file, environ>> /\ ApiIdle

\* add, "validate it's langserve-compatible"
AddCheck ==
    /\ cmd.name = "add" /\ cmd.pc = "check"
    /\ LET r == is_langserve(cmd.package_pyproject)
       IN  cmd' = IF r.raised # NoExc THEN Fail(r.raised)
                  ELSE IF ~r.ret THEN Fail(Exc("ValueError", {"tool.langserve"}))
                  ELSE [cmd EXCEPT !.pc = "install"]
    /\ UNCHANGED <<file, environ>> /\ ApiIdle

\* add, "poetry add it": subprocess.run without check=True returns whatever
\* the exit code; a successful poetry add records the dependency in the
\* project's pyproject.toml
AddInstall ==
    /\ cmd.name = "add" /\ cmd.pc = "install"
    /\ \E exit \in ExitCodes :
          LET package_path == _package_to_poetry(cmd.package)
          IN  /\ cmd' = [cmd EXCEPT !.pc = "mount",
                            !.installs = Append(@, [arg |-> package_path,
                                                    exit |-> exit])]
              /\ file' = IF exit = 0
                         THEN File([file.data EXCEPT !.rest = @ \cup {package_path}],
                                   "poetry")
                         ELSE file
    /\ UNCHANGED environ /\ ApiIdle

\* add, the mount path, _load_pyproject and add_langserve_path
AddMount ==
    /\ cmd.name = "add" /\ cmd.pc = "mount"
    /\ \E io \in IOs :
          LET api_path == IF cmd.path = NoneSeq \/ cmd.path = <<>>
                          THEN <<"/">> \o cmd.package ELSE cmd.path
              pyproject == _load_pyproject(io)
              export == get_langserve_export(cmd.package_pyproject)
              added == add_langserve_path(pyproject.ret, api_path, export.ret)
          IN  cmd' = IF pyproject.raised # NoExc THEN Fail(pyproject.raised)
                     ELSE IF export.raised # NoExc THEN Fail(export.raised)
                     ELSE IF added.raised # NoExc THEN Fail(added.raised)
                     ELSE [cmd EXCEPT !.pc = "save", !.pyproject = added.self]
    /\ UNCHANGED <<file, environ>> /\ ApiIdle

\* add, pyproject.save()
AddSave ==
    /\ cmd.name = "add" /\ cmd.pc = "save"
    /\ \E io \in SaveIOs :
          LET r == save(cmd.pyproject, io)
          IN  /\ cmd' = IF r.raised # NoExc THEN Fail(r.raised)
                        ELSE [cmd EXCEPT !.pc = "done", !.writes = @ + 1]
              /\ file' = r.ret
    /\ UNCHANGED environ /\ ApiIdle

\* remove(path) is called
StartRemove ==
    /\ Ended
    /\ \E path \in RemoveArgs :
          cmd' = [Idle EXCEPT !.name = "remove", !.pc = "mount", !.path = path]
    /\ UNCHANGED <<file, environ>> /\ ApiIdle

\* remove, _load_pyproject and remove_langserve_path
RemoveMount ==
    /\ cmd.name = "remove" /\ cmd.pc = "mount"
    /\ \E io \in IOs :
          LET curr_data == _load_pyproject(io)
              removed == remove_langserve_path(curr_data.ret, cmd.path)
          IN  cmd' = IF curr_data.raised # NoExc THEN Fail(curr_data.raised)
                     ELSE IF removed.raised # NoExc THEN Fail(removed.raised)
                     ELSE [cmd EXCEPT !.pc = "save", !.pyproject = removed.self]
    /\ UNCHANGED <<file, environ>> /\ ApiIdle

\* remove, curr_data.save()
RemoveSave ==
    /\ cmd.name = "remove" /\ cmd.pc = "save"
    /\ \E io \in SaveIOs :
          LET r == save(cmd.pyproject, io)
          IN  /\ cmd' = IF r.raised # NoExc THEN Fail(r.raised)
                        ELSE [cmd EXCEPT !.pc = "done", !.writes = @ + 1]
              /\ file' = r.ret
    /\ UNCHANGED environ /\ ApiIdle

\* list: the loaded PyProject object is subscripted as if it were its data
\* dict; the class defines no __getitem__, so curr_data["tool"] raises
\* TypeError before the loop over langserve.items() echoes anything
list ==
    /\ Ended
    /\ \E io \in IOs :
          LET curr_data == _load_pyproject(io)
          IN  cmd' = [Idle EXCEPT
                        !.name = "list", !.pc = "failed",
                        !.raised = IF curr_data.raised # NoExc
                                   THEN curr_data.raised
                                   ELSE Exc("TypeError", {})]
    /\ UNCHANGED <<file, environ>> /\ ApiIdle

Init ==
    /\ file \in {File(d, "authored") : d \in LocalManifests}
    /\ environ \in Tokens
    /\ cmd = Idle
    /\ obj = NoObject
    /\ call = NoCall
    /\ resolver = [package |-> NoneSeq, manifest |-> {}, source |-> {}]
    /\ dl = NoDownload

Next ==
    \/ StartAdd
    \/ AddFetch
    \/ AddCheck
    \/ AddInstall
    \/ AddMount
    \/ AddSave
    \/ StartRemove
    \/ RemoveMount
    \/ RemoveSave
    \/ list

Spec == Init /\ [][Next]_vars

(***************************************************************************)
(* The PyProject class on its own: one object, any sequence of method      *)
(* calls                                                                   *)
(***************************************************************************)
ApiPaths == {MountA, MountB}
Entries == {Tuple("m", "x"), Tuple("n", "y")}

CliIdle == UNCHANGED <<cmd, environ, resolver, dl>>

ApiLoad ==
    /\ \E io \in IOs :
          LET r == load(PyprojectToml, io)
          IN  /\ call' = Call("load", NoneSeq, None, r)
              /\ obj' = IF r.raised = NoExc THEN r.ret ELSE obj
    /\ UNCHANGED file /\ CliIdle

ApiFromUrl ==
    /\ \E package \in Packages, response \in Responses :
          LET r == from_url(_package_to_pyproject(package), response)
          IN  /\ call' = Call("from_url", NoneSeq, None, r)
              /\ obj' = IF r.raised = NoExc THEN r.ret ELSE obj
    /\ UNCHANGED file /\ CliIdle

ApiSave ==
    /\ obj.live
    /\ \E io \in SaveIOs :
          LET r == save(obj, io)
          IN  /\ call' = Call("save", NoneSeq, None, r)
              /\ file' = r.ret
    /\ UNCHANGED obj /\ CliIdle

ApiAddMount ==
    /\ obj.live
    /\ \E path \in ApiPaths, module \in Entries :
          LET r == add_langserve_path(obj, path, module)
          IN  /\ call' = Call("add_langserve_path", path, module, r)
              /\ obj' = r.self
    /\ UNCHANGED file /\ CliIdle

ApiRemoveMount ==
    /\ obj.live
    /\ \E path \in ApiPaths :
          LET r == remove_langserve_path(obj, path)
          IN  /\ call' = Call("remove_langserve_path", path, None, r)
              /\ obj' = r.self
    /\ UNCHANGED file /\ CliIdle

ApiListMounts ==
    /\ obj.live
    /\ call' = Call("get_langserve_paths", NoneSeq, None, get_langserve_paths(obj))
    /\ UNCHANGED <<file, obj>> /\ CliIdle

ApiGetExport ==
    /\ obj.live
    /\ call' = Call("get_langserve_export", NoneSeq, None, get_langserve_export(obj))
    /\ UNCHANGED <<file, obj>> /\ CliIdle

ApiIsLangserve ==
    /\ obj.live
    /\ call' = Call("is_langserve", NoneSeq, None, is_langserve(obj))
    /\ UNCHANGED <<file, obj>> /\ CliIdle

\* the project's manifests, each with a dependency outside tool.langserve
ApiManifests == {[d EXCEPT !.rest = {<<"dep">>}] : d \in LocalManifests}

InitApi ==
    /\ file \in {File(d, "authored") : d \in ApiManifests}
    /\ environ = NoneSeq
    /\ cmd = Idle
    /\ obj = NoObject
    /\ call = NoCall
    /\ resolver = [package |-> NoneSeq, manifest |-> {}, source |-> {}]
    /\ dl = NoDownload

NextApi ==
    \/ ApiLoad
    \/ ApiFromUrl
    \/ ApiSave
    \/ ApiAddMount
    \/ ApiRemoveMount
    \/ ApiListMounts
    \/ ApiGetExport
    \/ ApiIsLangserve

SpecApi == InitApi /\ [][NextApi]_vars

(***************************************************************************)
(* The identifier resolver on its own: one package identifier, resolved    *)
(* again and again while GITHUB_TOKEN is set, changed and unset            *)
(***************************************************************************)
Resolved(loc) == [env |-> environ, loc |-> loc]

SetEnv ==
    /\ \E t \in Tokens : t # environ /\ environ' = t
    /\ UNCHANGED <<file, cmd, obj, call, resolver, dl>>

ResolveManifest ==
    /\ resolver' = [resolver EXCEPT !.manifest =
                        @ \cup {Resolved(_package_to_pyproject(resolver.package))}]
    /\ UNCHANGED <<file, cmd, obj, call, environ, dl>>

ResolveSource ==
    /\ resolver' = [resolver EXCEPT !.source =
                        @ \cup {Resolved(_package_to_poetry(resolver.package))}]
    /\ UNCHANGED <<file, cmd, obj, call, environ, dl>>

InitResolver ==
    /\ file \in {File(EmptyData, "authored")}
    /\ environ \in Tokens
    /\ cmd = Idle
    /\ obj = NoObject
    /\ call = NoCall
    /\ \E package \in Identifiers :
          resolver = [package |-> package, manifest |-> {}, source |-> {}]
    /\ dl = NoDownload

NextResolver ==
    \/ SetEnv
    \/ ResolveManifest
    \/ ResolveSource

SpecResolver == InitResolver /\ [][NextResolver]_vars

(***************************************************************************)
(* The download command.  download_github_path (langservehub/github.py) is *)
(* not among the sources; its tasks follow the design of the remote tree   *)
(* downloader: one task per entry, siblings in parallel, a directory       *)
(* completes when all its children have, and fails as soon as one has.     *)
(***************************************************************************)
DlIdle == UNCHANGED <<file, environ, cmd, obj, call, resolver>>
DlRunning == dl.phase = "running"

\* download(package, localpath): asyncio.run starts the root traversal
download_start ==
    /\ dl.phase = "idle"
    /\ dl' = [dl EXCEPT !.phase = "running", !.status[Root] = "running"]
    /\ DlIdle

\* a directory's listing answers: the directory is created locally and one
\* task per entry is started; or the listing fails
ListDirectory(d) ==
    /\ DlRunning /\ dl.status[d] = "running"
    /\ \E ok \in BOOLEAN :
          dl' = IF ok
                THEN [dl EXCEPT !.disk[d] = "dir",
                                !.status = [n \in Nodes |->
                                    IF n = d THEN "waiting"
                                    ELSE IF n \in Children(d) THEN "running"
                                    ELSE @[n]]]
                ELSE [dl EXCEPT !.status[d] = "failed"]
    /\ DlIdle

\* a file's fetch answers: the content is written at localpath/<file>; or
\* the fetch fails
FetchFile(f) ==
    /\ DlRunning /\ dl.status[f] = "running"
    /\ \E ok \in BOOLEAN :
          dl' = IF ok
                THEN [dl EXCEPT !.disk[f] = dl.remote[f], !.status[f] = "done"]
                ELSE [dl EXCEPT !.status[f] = "failed"]
    /\ DlIdle

\* the join of a directory: all its children have completed
JoinDirectory(d) ==
    /\ DlRunning /\ dl.status[d] = "waiting"
    /\ \A c \in Children(d) : dl.status[c] = "done"
    /\ dl' = [dl EXCEPT !.status[d] = "done"]
    /\ DlIdle

\* the first failure of a child propagates to its directory at once
FailDirectory(d) ==
    /\ DlRunning /\ dl.status[d] = "waiting"
    /\ \E c \in Children(d) : dl.status[c] = "failed"
    /\ dl' = [dl EXCEPT !.status[d] = "failed"]
    /\ DlIdle

\* always prints the success line, raised or not
download_return_swallow ==
    /\ DlRunning /\ dl.status[Root] \in {"done", "failed"}
    /\ dl' = [dl EXCEPT !.phase = IF dl.status[Root] = "done" THEN "ok"
                                  ELSE "failed",
                        !.printed = TRUE]
    /\ DlIdle

\* prints the success line without waiting for the traversal to end
download_return_no_wait ==
    /\ DlRunning
    /\ dl' = [dl EXCEPT !.phase = IF dl.status[Root] = "failed" THEN "failed"
                                  ELSE "ok",
                        !.printed = dl.status[Root] # "failed"]
    /\ DlIdle

\* download: asyncio.run returns when the root traversal has ended, raising
\* what it raised; the success line is printed only after a normal return.
\* Tasks still pending at that point are cancelled with the event loop.
download_return ==
    /\ DlRunning /\ dl.status[Root] \in {"done", "failed"}
    /\ dl' = [dl EXCEPT !.phase = IF dl.status[Root] = "done" THEN "ok"
                                  ELSE "failed",
                        !.printed = dl.status[Root] = "done"]
    /\ DlIdle

InitDownload ==
    /\ file = File(EmptyData, "authored")
    /\ environ = NoneSeq
    /\ cmd = Idle
    /\ obj = NoObject
    /\ call = NoCall
    /\ resolver = [package |-> NoneSeq, manifest |-> {}, source |-> {}]
    /\ \E remote \in [Files -> Contents] :
          dl = [NoDownload EXCEPT !.remote = remote]

NextDownload ==
    \/ download_start
    \/ \E d \in Dirs : ListDirectory(d)
    \/ \E f \in Files : FetchFile(f)
    \/ \E d \in Dirs : JoinDirectory(d)
    \/ \E d \in Dirs : FailDirectory(d)
    \/ download_return

SpecDownload == InitDownload /\ [][NextDownload]_vars

(***************************************************************************)
(* Properties                                                              *)
(***************************************************************************)
HubSection(o) == o.live /\ o.data.tool /\ o.data.langserve
LocalEffects ==
    cmd.installs # <<>> \/ cmd.pyproject.live \/ cmd.writes > 0 \/ file # cmd.file0

\* C1: in add, the installer runs and the local manifest is loaded, modified
\* or saved only after the remote manifest was fetched and is_langserve()
\* returned true; an add whose fetch failed or whose package manifest has
\* no tool.langserve section ends in failure, with the installer never
\* invoked and pyproject.toml byte-for-byte as it was.
C1_CheckBeforeAnyEffect ==
    cmd.name = "add" =>
        /\ LocalEffects => HubSection(cmd.package_pyproject)
        /\ (Ended /\ ~HubSection(cmd.package_pyproject)) =>
               /\ cmd.pc = "failed"
               /\ cmd.raised # NoExc
               /\ cmd.installs = <<>>
               /\ file = cmd.file0

\* C1 witness: an add that fetched a manifest with a tool table and no
\* tool.langserve section has ended, rejected.
C1_Witness ==
    /\ cmd.name = "add" /\ cmd.pc = "failed"
    /\ cmd.package_pyproject.live
    /\ cmd.package_pyproject.data.tool
    /\ ~cmd.package_pyproject.data.langserve
    /\ cmd.raised = Exc("ValueError", {"tool.langserve"})

\* C2: in add, a non-zero exit of the installer ends the workflow in
\* failure: the mount entry is not added and pyproject.toml is not written.
C2_InstallerFailureIsTerminal ==
    (cmd.name = "add" /\ cmd.installs # <<>> /\ cmd.installs[1].exit # 0) =>
        /\ ~cmd.pyproject.live
        /\ cmd.writes = 0
        /\ Ended => cmd.pc = "failed"

\* C3: add_langserve_path is an upsert on every loaded document: afterwards
\* get_langserve_paths() maps the path to the entry point; a path that was
\* present keeps the table's size (the new value replaces the old one) and
\* a path that was absent makes it one larger.
C3_AddMountIsUpsert ==
    call.op = "add_langserve_path" =>
        LET after == get_langserve_paths(obj)
            before == call.pre.data.paths
        IN  /\ call.raised = NoExc
            /\ after.raised = NoExc
            /\ DictHas(after.ret, call.path)
            /\ DictGet(after.ret, call.path) = call.module
            /\ Len(after.ret) = IF DictHas(before, call.path) THEN Len(before)
                                ELSE Len(before) + 1

\* C4: remove_langserve_path(p) for a path p that is not in the mount table
\* raises KeyError and leaves the document as it was; the remove command
\* then fails before save(), so pyproject.toml is not rewritten.
C4_RemoveAbsentFails ==
    /\ \A p \in RemoveArgs :
          LET curr_data == _load_pyproject("ok").ret
              r == remove_langserve_path(curr_data, p)
          IN  ~DictHas(curr_data.data.paths, p) =>
                  r.raised = KeyErr /\ r.self = curr_data
    /\ (cmd.name = "remove" /\ ~DictHas(cmd.file0.data.paths, cmd.path)) =>
          /\ ~cmd.pyproject.live
          /\ cmd.writes = 0
          /\ file = cmd.file0
          /\ Ended => /\ cmd.pc = "failed"
                      /\ cmd.raised = KeyErr \/ cmd.raised.type = "OSError"

\* C4 witness: a remove of a path absent from a non-empty mount table has
\* ended with KeyError.
C4_Witness ==
    /\ cmd.name = "remove" /\ cmd.pc = "failed" /\ cmd.raised = KeyErr
    /\ Len(cmd.file0.data.paths) > 0
    /\ ~DictHas(cmd.file0.data.paths, cmd.path)

\* C5: after any sequence of add_langserve_path / remove_langserve_path on a
\* file-backed document, save() and then load() of the same path gives a
\* document with the same get_langserve_paths() and the same export_module
\* and export_attr as the document had before save().
C5_SaveLoadRoundTrip ==
    (call.op = "save" /\ call.raised = NoExc) =>
        LET again == load(obj.path, "ok")
        IN  /\ again.raised = NoExc
            /\ get_langserve_paths(again.ret).raised = get_langserve_paths(obj).raised
            /\ get_langserve_paths(again.ret).ret = get_langserve_paths(obj).ret
            /\ again.ret.data.export_module = obj.data.export_module
            /\ again.ret.data.export_attr = obj.data.export_attr

IsLocal(id) == Len(id) > 0 /\ id[1] \in {".", "/"}
ManifestFile == <<"/", "pyproject.toml">>
TokenAvailable(env) == env # NoneSeq /\ Len(env) > 0

\* C6: _package_to_pyproject(id) is id followed by "/pyproject.toml" when id
\* starts with "." or "/"; otherwise it is the raw-content base URL, id and
\* "/pyproject.toml", followed by "?token=<token>" exactly when GITHUB_TOKEN
\* holds a token, and by nothing when it does not.
C6_ManifestLocation ==
    \A r \in resolver.manifest :
        LET id == resolver.package
            n == Len(id) + 3
        IN  IF IsLocal(id) THEN r.loc = id \o ManifestFile
            ELSE /\ Len(r.loc) >= n
                 /\ SubSeq(r.loc, 1, n) = <<RawBase>> \o id \o ManifestFile
                 /\ SubSeq(r.loc, n + 1, Len(r.loc)) =
                        IF TokenAvailable(r.env) THEN <<"?token=">> \o r.env
                        ELSE <<>>

\* C6 witness: a hub-relative identifier has been resolved both with a token
\* in the environment and with none.
C6_Witness ==
    /\ ~IsLocal(resolver.package) /\ Len(resolver.package) > 0
    /\ \E r1, r2 \in resolver.manifest :
          /\ r1.env = <<"t">> /\ r1.loc[Len(r1.loc)] = "t"
          /\ r2.env = NoneSeq /\ r2.loc[Len(r2.loc)] = "pyproject.toml"

\* C7: _package_to_poetry(id) is the same string whatever GITHUB_TOKEN is, and
\* never holds the token: id itself when id starts with "." or "/", and
\* otherwise the git locator whose subdirectory fragment is id.
C7_SourceLocationIgnoresToken ==
    /\ \A r \in resolver.source :
          /\ r.loc = IF IsLocal(resolver.package) THEN resolver.package
                     ELSE <<GitBase>> \o resolver.package
          /\ \A i \in 1..Len(r.loc) : r.loc[i] \notin {"?token=", "t"}
    /\ \A r1, r2 \in resolver.source : r1.loc = r2.loc

\* C7 witness: the same hub-relative identifier has been resolved to a source
\* location once with a token in the environment and once with none.
C7_Witness ==
    /\ ~IsLocal(resolver.package) /\ Len(resolver.package) > 0
    /\ \E r1, r2 \in resolver.source : r1.env = <<"t">> /\ r2.env = NoneSeq

\* C8: get_langserve_export() returns (export_module, export_attr) exactly
\* when both are present; otherwise it raises an error whose message names
\* exactly the missing fields: export_attr, export_module, or both.
C8_ExportErrorNamesMissing ==
    call.op = "get_langserve_export" =>
        LET missing == {f \in {"export_module", "export_attr"} : obj.data[f] = None}
        IN  IF missing = {}
            THEN /\ call.raised = NoExc
                 /\ call.ret = Tuple(obj.data.export_module, obj.data.export_attr)
            ELSE /\ call.raised # NoExc
                 /\ call.raised.mentions = missing

\* C9: a document made by from_url has no path, through every method call;
\* save() on it raises and leaves pyproject.toml alone; in add the document
\* that is saved is the file-backed local manifest, never the remote one.
C9_RemoteManifestNeverSaved ==
    /\ cmd.package_pyproject.live =>
          /\ cmd.package_pyproject.path = None
          /\ \A io \in SaveIOs :
                LET r == save(cmd.package_pyproject, io)
                IN  r.raised = Exc("ValueError", {}) /\ r.ret = file
          /\ \A p \in RemoveArgs, e \in Entries :
                /\ add_langserve_path(cmd.package_pyproject, p, e).self.path = None
                /\ remove_langserve_path(cmd.package_pyproject, p).self.path = None
    /\ cmd.pyproject.live => cmd.pyproject.path = PyprojectToml
    /\ cmd.writes > 0 =>
          file = File(dump_toml(cmd.pyproject.data), "tomli_w")

\* C9 witness: an add has fetched the remote manifest and has saved the
\* local one.
C9_Witness ==
    /\ cmd.name = "add" /\ cmd.pc = "done" /\ cmd.writes = 1
    /\ cmd.package_pyproject.live /\ cmd.pyproject.live

\* C10: starting from a manifest whose mount paths all start with "/",
\* after any sequence of add and remove commands every key of the mount
\* table in pyproject.toml starts with "/".
C10_MountPathsStartWithSlash ==
    \A i \in 1..Len(file.data.paths) : startswith(file.data.paths[i].k, "/")

\* C11: a package whose manifest lacks export_module or export_attr is not
\* hub-compatible: add rejects it at the compatibility check, so the
\* installer is never invoked for it.
C11_NoExportIsRejected ==
    (/\ cmd.name = "add"
     /\ cmd.package_pyproject.live
     /\ \/ cmd.package_pyproject.data.export_module = None
        \/ cmd.package_pyproject.data.export_attr = None) =>
        /\ cmd.pc \in {"check", "failed"}
        /\ cmd.installs = <<>>

SomeFetchFailed == \E n \in Nodes : dl.status[n] = "failed"

\* C12: once the fetch of any file or directory of the remote tree has
\* failed, the download ends in failure and the success line is never
\* printed; the files that completed fetches wrote stay on disk.
C12_DownloadFailurePropagates ==
    /\ SomeFetchFailed =>
          /\ ~dl.printed
          /\ dl.phase \in {"running", "failed"}
    /\ \A f \in Files : dl.status[f] = "done" => dl.disk[f] = dl.remote[f]

\* C12 witness: the download has ended in failure because sub/b.txt failed,
\* with a.txt already written.
C12_Witness ==
    /\ dl.phase = "failed"
    /\ dl.status["sub/b.txt"] = "failed"
    /\ dl.status["a.txt"] = "done" /\ dl.disk["a.txt"] = dl.remote["a.txt"]

\* C13: in every interleaving a directory is done only when all its
\* children are done, and when download prints success every directory of
\* the remote tree exists locally and every file, at every depth, is at
\* localpath/<its path> with the remote content.
C13_DownloadJoinBarrier ==
    /\ \A d \in Dirs :
          dl.status[d] = "done" => \A c \in Children(d) : dl.status[c] = "done"
    /\ dl.printed =>
          /\ \A d \in Dirs : dl.disk[d] = "dir"
          /\ \A f \in Files : dl.disk[f] = dl.remote[f]

\* C13 witness: success was printed for a tree whose files differ in content.
C13_Witness ==
    /\ dl.printed /\ dl.phase = "ok"
    /\ dl.remote["a.txt"] = "x" /\ dl.remote["sub/b.txt"] = "y"
    /\ dl.disk["sub/b.txt"] = "y"

\* C14: after a successful add, pyproject.toml is the previous manifest with
\* exactly one mount upserted: under the path argument whenever one was
\* given, whatever its value, and under "/" + package otherwise; the value
\* is the remote manifest's [export_module, export_attr].  (What the
\* installer itself recorded outside tool.langserve is left aside.)
C14_AddUpsertsOneMount ==
    (cmd.name = "add" /\ cmd.pc = "done") =>
        LET key == IF cmd.path # NoneSeq THEN cmd.path
                   ELSE <<"/">> \o cmd.package
            value == Array(cmd.package_pyproject.data.export_module,
                           cmd.package_pyproject.data.export_attr)
            before == cmd.file0.data
        IN  /\ file.data.paths = DictSet(before.paths, key, value)
            /\ file.data.export_module = before.export_module
            /\ file.data.export_attr = before.export_attr
            /\ file.data.ls_other = before.ls_other
            /\ file.data.tool = before.tool
            /\ before.rest \subseteq file.data.rest
            /\ file.data.rest \subseteq before.rest \cup {cmd.installs[1].arg}

\* the mount table a load of the file gives: get_langserve_paths' outcome
MountTable(f) ==
    LET r == get_langserve_paths(PyProject(load_toml(f.data), PyprojectToml))
    IN  <<r.raised, r.ret>>

\* C15: no rollback after install: when the installer of add succeeded and
\* a later step (loading the local manifest, add_langserve_path with its
\* get_langserve_export, or save) fails, add ends in failure with the
\* package installed and pyproject.toml unmounted: its mount table is the
\* one it had before the command.
C15_InstalledButUnmounted ==
    (/\ cmd.name = "add" /\ cmd.pc = "failed"
     /\ cmd.installs # <<>> /\ cmd.installs[1].exit = 0) =>
        /\ cmd.raised # NoExc
        /\ MountTable(file) = MountTable(cmd.file0)

\* C16: list completes without error for every loadable local manifest,
\* echoes exactly one line per mount table entry (mount path -> entry
\* point) in insertion order, and leaves pyproject.toml unchanged.
C16_ListEchoesMounts ==
    (cmd.name = "list" /\ cmd.raised.type # "OSError") =>
        LET mounts == load_toml(cmd.file0.data).paths
        IN  /\ cmd.pc = "done"
            /\ cmd.raised = NoExc
            /\ cmd.echo = [i \in 1..Len(mounts) |-> <<mounts[i].k, mounts[i].v>>]
            /\ file = cmd.file0

\* C17: is_langserve() is a total boolean test on every loaded document:
\* true exactly when the document has tool.langserve, whatever is in it,
\* and false otherwise, also for a document with no tool table.
C17_IsLangserveTotal ==
    call.op = "is_langserve" =>
        /\ call.raised = NoExc
        /\ call.ret = (obj.data.tool /\ obj.data.langserve)

Others(d, p) == SelectSeq(d, LAMBDA item : item.k # p)

\* C18: a successful add_langserve_path(p, e) or remove_langserve_path(p)
\* changes only the entry for p in tool.langserve.paths: the other mount
\* entries and their order, export_module, export_attr, the other keys of
\* tool.langserve, everything outside tool.langserve and the document's
\* path stay as they were; a remove takes away exactly p.
C18_MountOperationsFrame ==
    (/\ call.op \in {"add_langserve_path", "remove_langserve_path"}
     /\ call.raised = NoExc) =>
        LET pre == call.pre.data
            post == obj.data
        IN  /\ Others(post.paths, call.path) = Others(pre.paths, call.path)
            /\ post.export_module = pre.export_module
            /\ post.export_attr = pre.export_attr
            /\ post.ls_other = pre.ls_other
            /\ post.rest = pre.rest
            /\ post.tool = pre.tool
            /\ obj.path = call.pre.path
            /\ call.op = "add_langserve_path" =>
                  Cardinality({i \in 1..Len(post.paths) :
                                  post.paths[i].k = call.path}) = 1
            /\ call.op = "remove_langserve_path" =>
                  /\ DictHas(pre.paths, call.path)
                  /\ ~DictHas(post.paths, call.path)
                  /\ Len(post.paths) = Len(pre.paths) - 1

\* C18 witness: a path was removed from a document that keeps another
\* mount, export fields, another key of tool.langserve and a dependency
\* outside tool.langserve.
C18_Witness ==
    /\ call.op = "remove_langserve_path" /\ call.raised = NoExc
    /\ Len(obj.data.paths) = 1
    /\ obj.data.export_module # None /\ obj.data.ls_other # None
    /\ obj.data.rest # {}

====
